---- MODULE Spec2Model ----
(***************************************************************************)
(* Model of the skill refinement loop of demo-container/skill-refine-loop.py *)
(* (main, run_refinement_loop, run_skill_test, run_fix_agent and the output *)
(* parsers).  Each sub-invocation (the docker test run, the claude fix run) *)
(* is a subprocess whose outcome is an input of the action that receives it.*)
(*                                                                         *)
(* Python's Optional values are encoded as sequences: None is <<>> and a   *)
(* value v is <<v>>.  A JSON value of the wrong type is a longer sequence. *)
(***************************************************************************)
EXTENDS Integers, Sequences, FiniteSets, TLC

\* ------------------------------------------------------------------ bounds
\* The largest --max-attempts value explored.
MaxAttemptsBound == 3
\* The largest prompt index the executor reports.
MaxStep == 3
\* The number of distinct non-empty session ids the fix agent can return.
NumTokens == 2
\* The number of pages in the Confluence space that is cleaned up.
NumPages == 2
\* The largest depth of a page (the count of "/" in its webui link).
MaxDepth == 1
\* The number of pages a mock Confluence client creates at most, and the
\* largest version an update gives a page.
MaxCreated == 2
\* The largest max_retries a retry_on_failure decorator is given, the
\* largest base_delay, and the largest Retry-After value, in seconds.
MaxRetriesBound == 2
MaxBaseDelay == 2
MaxRetryAfter == 3
MaxVersion == 2
\* How many times the patcher or the import hook runs for the class in one
\* CLI invocation.
MaxPatchRuns == 3

\* ------------------------------------------------------- program constants
\* error_summary keeps the first 100 characters of the refinement suggestion.
ErrorSummaryCap == 100
\* _load_state returns next_id 100 when the state file has none.
DefaultNextId == 100

\* ---------------------------------------------------------------- encoding
None == <<>>
Some(v) == <<v>>
Min(a, b) == IF a <= b THEN a ELSE b

\* A str is modelled by its length where only slicing matters.
\* Session ids: 0 is the empty string "", 1..NumTokens are non-empty strings.
Tokens == 1..NumTokens
SessionIds == {None} \cup {Some(t) : t \in 0..NumTokens}
\* Python truthiness of an Optional[str] session id.
Truthy(sid) == sid # None /\ sid # Some(0)

\* ------------------------------------------------- executor output (stdout)
\* A "prompt_index" field of a failure object: absent/null (None), an int,
\* or a string (a value of the wrong type, <<i, "str">>).
PromptIndexValues ==
    {None} \cup {Some(i) : i \in -1..MaxStep} \cup {<<1, "str">>}

\* The "failure" member of a fix-context object.
\*   t = "absent"  : no "failure" key
\*   t = "null"    : "failure": null
\*   t = "nondict" : "failure" is a list, string or number
\*   t = "dict"    : an object; complete says whether it carries every field
\*                   run_fix_agent reads (prompt_text, tools_called,
\*                   tool_assertions, text_assertions, quality, tool_accuracy,
\*                   reasoning, refinement_suggestion) with str texts;
\*                   sugg is the length of refinement_suggestion.
\* Lengths of the refinement_suggestion text: empty, and longer than the summary keeps.
SuggestionLengths == {0, ErrorSummaryCap + 1}
NoFailure == [t |-> "absent", complete |-> FALSE, prompt_index |-> None, sugg |-> 0]
FailureValues ==
    {NoFailure}
    \cup {[t |-> k, complete |-> FALSE, prompt_index |-> None, sugg |-> 0] :
            k \in {"null", "nondict"}}
    \cup {[t |-> "dict", complete |-> FALSE, prompt_index |-> i, sugg |-> 0] :
            i \in {None, Some(1)}}
    \cup {[t |-> "dict", complete |-> TRUE, prompt_index |-> i, sugg |-> s] :
            i \in PromptIndexValues, s \in SuggestionLengths}

\* A JSON object printed by skill-test.py: its "status" member ("absent" when
\* there is none), its "failure" member, and whether it has any other member.
EmptyObject == [status |-> "absent", failure |-> NoFailure, other |-> FALSE]
ExecObjects ==
    {EmptyObject}
    \cup {[status |-> "all_passed", failure |-> f, other |-> FALSE] :
            f \in {NoFailure,
                   [t |-> "dict", complete |-> TRUE, prompt_index |-> Some(1), sugg |-> 0]}}
    \cup {[status |-> "running", failure |-> NoFailure, other |-> FALSE],
          [status |-> "absent", failure |-> NoFailure, other |-> TRUE]}
    \cup {[status |-> "absent", failure |-> f, other |-> FALSE] :
            f \in FailureValues \ {NoFailure}}

\* stdout is a sequence of segments:
\*   "ws"       whitespace
\*   "log"      diagnostic text without any '{'
\*   "logbrace" diagnostic text with a '{' from which no JSON value parses
\*   "obj"      a JSON object (v), starting with its '{'
\*   "arr"      a JSON array without any '{'
\*   "arrobj"   a JSON array that contains an object, e.g. [{"a": 1}]
\*   "scalar"   a JSON number, string, true, false or null without any '{'
\*   "deep"     text without any '{' that opens more nested arrays than the
\*              interpreter's recursion limit allows, e.g. "[[[[ ..."
SegmentKinds == {"ws", "log", "logbrace", "obj", "arr", "arrobj", "scalar", "deep"}
JsonKinds == {"obj", "arr", "arrobj", "scalar"}
BraceKinds == {"logbrace", "obj", "arrobj"}
Segments ==
    {[k |-> kind, v |-> EmptyObject] : kind \in SegmentKinds \ {"obj"}}
    \cup {[k |-> "obj", v |-> o] : o \in ExecObjects}

\* What the process printed: an optional leading segment, a body segment and
\* an optional trailing segment (adjacent text of one kind is one segment).
OptSegments == {<<>>} \cup {<<x>> : x \in {g \in Segments : g.k # "obj"}}
Stdouts ==
    {<<>>} \cup
    {pre \o <<body>> \o post :
        pre \in OptSegments, body \in Segments, post \in OptSegments}

\* str.strip(): leading and trailing whitespace removed.
RECURSIVE LStrip(_)
LStrip(s) == IF s # <<>> /\ Head(s).k = "ws" THEN LStrip(Tail(s)) ELSE s
RECURSIVE RStrip(_)
RStrip(s) ==
    IF s # <<>> /\ s[Len(s)].k = "ws" THEN RStrip(SubSeq(s, 1, Len(s) - 1)) ELSE s
Strip(s) == LStrip(RStrip(s))

\* json.loads(text): the parsed value (its segment), or None on JSONDecodeError.
\* The text must be exactly one JSON value, surrounding whitespace allowed.
\* json.loads(text) raises RecursionError, which is not a JSONDecodeError,
\* when the text starts with a value nested deeper than the recursion limit.
json_loads_raises(s) ==
    LET t == Strip(s)
    IN  t # <<>> /\ t[1].k = "deep"

json_loads(s) ==
    LET t == Strip(s)
    IN  IF Len(t) = 1 /\ t[1].k \in JsonKinds THEN Some(t[1]) ELSE None

\* str.find("{"): the first segment holding a '{' (0 when there is none), and
\* the text from that '{' to the end.  In an "obj" segment the '{' is its first
\* character; in the other kinds it is inside the segment, and what follows it
\* is not a JSON value.
BraceSegment(s) ==
    IF \E i \in 1..Len(s) : s[i].k \in BraceKinds
    THEN CHOOSE i \in 1..Len(s) :
            /\ s[i].k \in BraceKinds
            /\ \A j \in 1..(i - 1) : s[j].k \notin BraceKinds
    ELSE 0
FromBrace(s) ==
    LET i == BraceSegment(s)
    IN  IF s[i].k = "obj" THEN SubSeq(s, i, Len(s))
        ELSE <<[k |-> "logbrace", v |-> EmptyObject]>> \o SubSeq(s, i + 1, Len(s))

\* How the docker subprocess of run_skill_test ended.
TestOutcomes ==
    {[k |-> kind, stdout |-> <<>>, returncode |-> 1] : kind \in {"timeout", "error"}}
    \cup {[k |-> "done", stdout |-> o, returncode |-> rc] : o \in Stdouts, rc \in {0, 1}}

\* The (all_passed, fix_context_or_none) pair run_skill_test returns.
TestResult(passed, ctx) == [passed |-> passed, ctx |-> ctx]

\* One parsing stage: a parsed dict decides the result; anything else falls
\* through to the next stage (None).
FromParsed(parsed) ==
    IF parsed # None /\ parsed[1].k = "obj"
    THEN IF parsed[1].v.status = "all_passed"
         THEN Some(TestResult(TRUE, None))
         ELSE Some(TestResult(FALSE, Some(parsed[1].v)))
    ELSE None

\* run_skill_test catches json.JSONDecodeError only: the parse of the whole
\* output can raise RecursionError (the text from the first '{' starts with a
\* '{' and so never with nested arrays).
run_skill_test_raises(fix_context, outcome) ==
    outcome.k = "done" /\ fix_context /\ json_loads_raises(outcome.stdout)

\* Variant of run_skill_test: output that cannot be parsed falls through to
\* the exit status.
run_skill_test_ExitStatus(fix_context, outcome) ==
    IF outcome.k \in {"timeout", "error"} THEN TestResult(FALSE, None)
    ELSE IF fix_context
    THEN LET stdout == Strip(outcome.stdout)
             whole == FromParsed(json_loads(stdout))
         IN  IF whole # None THEN whole[1]
             ELSE IF BraceSegment(stdout) > 0
                     /\ FromParsed(json_loads(FromBrace(stdout))) # None
             THEN FromParsed(json_loads(FromBrace(stdout)))[1]
             ELSE TestResult(outcome.returncode = 0, None)
    ELSE TestResult(outcome.returncode = 0, None)

\* run_skill_test from the end of subprocess.run: the timeout and launch-error
\* handlers, then the parse of stdout.
run_skill_test(fix_context, outcome) ==
    IF outcome.k \in {"timeout", "error"} THEN TestResult(FALSE, None)
    ELSE IF fix_context
    THEN LET stdout == Strip(outcome.stdout)
             whole == FromParsed(json_loads(stdout))
         IN  IF whole # None THEN whole[1]
             ELSE IF BraceSegment(stdout) > 0
                     /\ FromParsed(json_loads(FromBrace(stdout))) # None
             THEN FromParsed(json_loads(FromBrace(stdout)))[1]
             ELSE TestResult(FALSE, None)
    ELSE TestResult(outcome.returncode = 0, None)

\* --------------------------------------------------- fix agent output
\* File paths the agent's text can mention.
Paths == {"skills/page/SKILL.md"}
\* What the file-change detection reads in a text: whether it holds an edit
\* indicator ("Edit", "edited", "updated") and the paths matching the pattern.
TextProps == [edit : BOOLEAN, paths : SUBSET Paths]

\* stdout of the claude subprocess.
\*   k = "text"    : not JSON
\*   k = "nondict" : JSON, but a list, string, number or null
\*   k = "dict"    : a JSON object; has_sid/sid are its "session_id" member
\*                   (sid = None is null), body says which text member it has:
\*                   a str "result", a "content" list of well-formed blocks,
\*                   a "content" list with a malformed block, or neither.
\* inner is the text of result/content, raw the whole stdout.
FixStdouts ==
    {[k |-> kind, has_sid |-> FALSE, sid |-> None, body |-> "none",
      inner |-> t, raw |-> t] : kind \in {"text", "nondict"}, t \in TextProps}
    \cup {o \in [k : {"dict"}, has_sid : BOOLEAN, sid : SessionIds,
                 body : {"result", "content", "badcontent", "none"},
                 inner : TextProps, raw : TextProps] :
            /\ ~o.has_sid => o.sid = None
            /\ o.inner.edit => o.raw.edit
            /\ o.inner.paths \subseteq o.raw.paths
            /\ o.body = "none" => o.inner = o.raw}

FixOutcomes ==
    {[k |-> kind, stdout |-> CHOOSE o \in FixStdouts : o.k = "text", returncode |-> 1] :
        kind \in {"timeout", "error"}}
    \cup {[k |-> "done", stdout |-> o, returncode |-> rc] : o \in FixStdouts, rc \in {0, 1}}

\* _parse_fix_agent_output and _extract_text_from_output call .get on whatever
\* json.loads returned and catch JSONDecodeError only.
ParseRaises(output) == output.k = "nondict"
ExtractRaises(output) == output.k = "nondict" \/ (output.k = "dict" /\ output.body = "badcontent")

_parse_fix_agent_output(output, default_session_id) ==
    IF output.k = "dict"
    THEN IF output.has_sid THEN output.sid ELSE default_session_id
    ELSE default_session_id

_extract_text_from_output(output) ==
    IF output.k = "dict" /\ output.body \in {"result", "content"}
    THEN output.inner
    ELSE output.raw

FilesChanged(text) == IF text.edit THEN text.paths ELSE {}

FixResult(success, files_changed, summary, session_id) ==
    [success |-> success, files_changed |-> files_changed,
     summary |-> summary, session_id |-> session_id]

\* Variant of run_fix_agent: a timeout or launch error returns no session id.
run_fix_agent_DropToken(session_id, outcome) ==
    IF outcome.k = "timeout"
    THEN FixResult(FALSE, {}, "Fix agent timed out", None)
    ELSE IF outcome.k = "error"
    THEN FixResult(FALSE, {}, "Fix agent error", None)
    ELSE FixResult(outcome.returncode = 0,
                   FilesChanged(_extract_text_from_output(outcome.stdout)),
                   "output",
                   _parse_fix_agent_output(outcome.stdout, session_id))

\* run_fix_agent from the end of subprocess.run, when it does not raise.
run_fix_agent(session_id, outcome) ==
    IF outcome.k = "timeout"
    THEN FixResult(FALSE, {}, "Fix agent timed out", session_id)
    ELSE IF outcome.k = "error"
    THEN FixResult(FALSE, {}, "Fix agent error", session_id)
    ELSE FixResult(outcome.returncode = 0,
                   FilesChanged(_extract_text_from_output(outcome.stdout)),
                   "output",
                   _parse_fix_agent_output(outcome.stdout, session_id))

run_fix_agent_raises(outcome) ==
    outcome.k = "done" /\ (ParseRaises(outcome.stdout) \/ ExtractRaises(outcome.stdout))

\* ------------------------------------------------------------- the program
VARIABLES
    args,                       \* the parsed command line (argparse)
    plugin_found,               \* whether the platform's plugin path exists
    credential_found,           \* whether the platform's primary credential is set
    proc,                       \* SpecParse: the docker subprocess as it ended
    exec_ended,                 \* how the executor run just returned ended
    pc,                         \* where the process is
    state,                      \* the controller's state
    attempt,                    \* the for-loop variable of run_refinement_loop
    fix_session_id,             \* the held continuation token
    attempt_history,            \* the list of attempt records
    last_failing_prompt_index,
    all_passed,                 \* what run_skill_test returned: the flag,
    fix_ctx,                    \*   and the fix context or None
    failure,                    \* the failure dict of the latest fix context
    fix_result,                 \* the latest FixResult
    test_call,                  \* arguments of the run_skill_test call in flight
    fix_call,                   \* arguments of the run_fix_agent call in flight
    returned,                   \* run_refinement_loop's return value
    raised,                     \* the exception that escaped, "" if none
    exit_code,                  \* the process exit status
    exec_count,                 \* number of executor subprocesses started
    fix_count,                  \* number of fix-agent subprocesses started
    attempt_outcomes,           \* per attempt, how its executor run ended
    token_carried,              \* the session_id member of the latest fix output
    cleanup,                    \* the process of scripts/cleanup_confluence_sandbox.py
    mock,                       \* the mock Confluence client patched by sitecustomize.py
    retry                       \* one call of a retry_on_failure wrapper (confluence_base.py)

vars == <<cleanup, mock, retry, args, plugin_found, credential_found, proc, exec_ended, pc, state, attempt, fix_session_id, attempt_history,
          last_failing_prompt_index, all_passed, fix_ctx, failure, fix_result,
          test_call, fix_call, returned, raised, exit_code, exec_count, fix_count,
          attempt_outcomes, token_carried>>

\* What main is given: the command line, the file system, the environment.
inputs == <<args, plugin_found, credential_found, proc>>
\* The locals of run_refinement_loop and the frames of its callees.
loop_locals == <<attempt, fix_session_id, attempt_history, last_failing_prompt_index,
                 all_passed, fix_ctx, failure, fix_result>>
calls == <<test_call, fix_call, token_carried>>
result_vars == <<state, returned, raised>>
counters == <<exec_count, fix_count, attempt_outcomes>>
\* The processes of the other programs of the repository.
scripts == <<cleanup, mock, retry>>
\* The process of skill-refine-loop.py.
refine_vars == <<inputs, exec_ended, pc, loop_locals, calls, result_vars, exit_code,
                 counters>>

Scenarios == {"page"}
Platforms == {"confluence"}
Args == [scenario : Scenarios, platform : Platforms, max_attempts : 0..MaxAttemptsBound]

\* checkpoint_file = f"/tmp/checkpoints/{platform}_{scenario}.json"
CheckpointFile(platform, scenario) == <<"/tmp/checkpoints", platform, scenario>>

NoTestCall ==
    [fix_context |-> FALSE, conversation |-> FALSE, fail_fast |-> FALSE,
     checkpoint_file |-> None, fork_from |-> None, prompt_index |-> None]
NoFixCall == [session_id |-> None, attempt_history |-> <<>>, resume |-> None]
NoFixResult == FixResult(FALSE, {}, "", None)
NoToken == [has |-> FALSE, sid |-> None]
\* No subprocess result is held.
NoProc == [k |-> "none", stdout |-> <<>>, returncode |-> 0]

\* The locals as run_refinement_loop initialises them, no call in flight.
InitLocals(a, sid, hist, last, passed, ctx, fail, res, tcall, fcall, carried) ==
    /\ a = 0
    /\ sid = None
    /\ hist = <<>>
    /\ last = None
    /\ passed = FALSE
    /\ ctx = None
    /\ fail = NoFailure
    /\ res = NoFixResult
    /\ tcall = NoTestCall
    /\ fcall = NoFixCall
    /\ carried = NoToken

\* cleanup_confluence_sandbox.py has not been started.
NoCleanup ==
    [pc |-> "idle", server |-> <<>>, pages |-> <<>>, i |-> 0, preserved |-> <<>>,
     to_delete |-> <<>>, deleted |-> {}, deleted_count |-> 0, exit_code |-> None]
\* The state file of a platform: missing, unreadable, or the JSON object
\* _save_state wrote (data as the set of its <<key, item>> members).
NoFile == [k |-> "missing", next_id |-> 0, data |-> {}]
\* No CLI invocation has constructed a mock client.
NoClient == [live |-> FALSE, pages |-> <<>>, next_id |-> 0]
NoMock ==
    [mode |-> FALSE, reachable |-> TRUE, file |-> NoFile, client |-> NoClient,
     last_write |-> "none", patched |-> FALSE, wrappers |-> 0, patch_runs |-> 0,
     saves |-> 0, result |-> 0, raised |-> ""]
\* None of the other programs has been started.
\* No wrapped request function has been called.
\* response.headers.get("Retry-After"): no header, an empty value, a number
\* of seconds, or an HTTP date.
NoHeader == [k |-> "absent", v |-> 0]
NoResponse == [k |-> "none", status_code |-> 0, retry_after |-> NoHeader]
NoRetry ==
    [pc |-> "idle", max_retries |-> 0, base_delay |-> 0, attempt |-> 0, calls |-> 0,
     slept |-> <<>>, last |-> NoResponse, returned |-> NoResponse, raised |-> "",
     last_exception |-> ""]
ScriptsIdle == cleanup = NoCleanup /\ mock = NoMock /\ retry = NoRetry

Init ==
    /\ args \in Args
    /\ plugin_found \in BOOLEAN
    /\ credential_found \in BOOLEAN
    /\ proc = NoProc
    /\ ScriptsIdle
    /\ exec_ended = ""
    /\ pc = "main"
    /\ state = "NOT_STARTED"
    /\ InitLocals(attempt, fix_session_id, attempt_history, last_failing_prompt_index,
                  all_passed, fix_ctx, failure, fix_result, test_call, fix_call,
                  token_carried)
    /\ returned = None
    /\ raised = ""
    /\ exit_code = None
    /\ exec_count = 0
    /\ fix_count = 0
    /\ attempt_outcomes = <<>>

\* main up to the call of run_refinement_loop: a missing plugin path exits 1;
\* a missing credential (credential_found is not read) only prints a warning.
Main ==
    /\ pc = "main"
    /\ IF plugin_found
       THEN /\ pc' = "loop"
            /\ state' = "RUNNING"
            /\ exit_code' = exit_code
       ELSE /\ pc' = "exit"
            /\ exit_code' = Some(1)
            /\ state' = state
    /\ UNCHANGED <<inputs, scripts, exec_ended, loop_locals, calls, returned, raised, counters>>

IsInt(idx) == Len(idx) = 1

\* Variant of ForkFrom: only the second attempt forks.
ForkFrom_SecondOnly(a, last) ==
    IF a = 2 /\ last # None /\ last[1] > 0 THEN Some(last[1] - 1) ELSE None

\* Variants of ForkFrom: the failing index itself as the fork point; a fork
\* offset applied to index 0 as well.
ForkFrom_NoOffset(a, last) ==
    IF a > 1 /\ last # None /\ last[1] > 0 THEN last ELSE None
ForkFrom_AtZero(a, last) ==
    IF a > 1 /\ last # None /\ last[1] >= 0 THEN Some(last[1] - 1) ELSE None

\* Variant of PromptIndex: without a recorded failure the run resumes at the
\* first prompt.
PromptIndex_FromZero(a, last) ==
    IF a > 1 /\ last # None
    THEN IF last[1] > 0 THEN last ELSE Some(0)
    ELSE Some(0)

\* The fork point and the resume step of an attempt.
ForkFrom(a, last) ==
    IF a > 1 /\ last # None /\ last[1] > 0 THEN Some(last[1] - 1) ELSE None
PromptIndex(a, last) ==
    IF a > 1 /\ last # None
    THEN IF last[1] > 0 THEN last ELSE Some(0)
    ELSE None

\* run_refinement_loop ends in state st, returning ret or raising exc; its
\* locals and the frames of its callees are discarded.
Leave(st, ret, exc) ==
    /\ pc' = "return"
    /\ state' = st
    /\ returned' = ret
    /\ raised' = exc
    /\ InitLocals(attempt', fix_session_id', attempt_history',
                  last_failing_prompt_index', all_passed', fix_ctx', failure',
                  fix_result', test_call', fix_call', token_carried')
Raise(exc) == Leave("RAISED", None, exc)

\* The for loop is exhausted: the FAILED banner and return False.
ForExhausted ==
    /\ pc = "loop"
    /\ attempt >= args.max_attempts
    /\ Leave("FAILED_EXHAUSTED", Some(FALSE), "")
    /\ UNCHANGED <<inputs, scripts, exec_ended, exit_code, counters>>

\* Variant of TestCall: a checkpoint file of its own for every attempt.
TestCall_PerAttempt(a, last) ==
    [fix_context |-> TRUE, conversation |-> TRUE, fail_fast |-> TRUE,
     checkpoint_file |-> Some(CheckpointFile(args.platform, args.scenario) \o <<a>>),
     fork_from |-> ForkFrom(a, last),
     prompt_index |-> PromptIndex(a, last)]

\* Variant of TestCall: attempts after the first run without fail-fast.
TestCall_NoFailFast(a, last) ==
    [fix_context |-> TRUE, conversation |-> TRUE, fail_fast |-> (a = 1),
     checkpoint_file |-> Some(CheckpointFile(args.platform, args.scenario)),
     fork_from |-> ForkFrom(a, last),
     prompt_index |-> PromptIndex(a, last)]

\* The options run_skill_test puts on the skill-test.py command line for
\* its keyword arguments.
InnerCmdOptions(call) ==
    (IF call.conversation THEN {"--conversation"} ELSE {})
    \cup (IF call.fail_fast THEN {"--fail-fast"} ELSE {})
    \cup (IF call.checkpoint_file # None THEN {"--checkpoint-file"} ELSE {})
    \cup (IF call.fork_from # None THEN {"--fork-from"} ELSE {})
    \cup (IF call.prompt_index # None THEN {"--prompt-index"} ELSE {})
    \cup (IF call.fix_context THEN {"--fix-context"} ELSE {})

\* The keyword arguments run_refinement_loop gives run_skill_test.
TestCall(a, last) ==
    [fix_context |-> TRUE, conversation |-> TRUE, fail_fast |-> TRUE,
     checkpoint_file |-> Some(CheckpointFile(args.platform, args.scenario)),
     fork_from |-> ForkFrom(a, last),
     prompt_index |-> PromptIndex(a, last)]

\* The head of an iteration up to subprocess.run in run_skill_test: the fork
\* point, then the docker command; mkdir of /tmp/checkpoints is not guarded.
ForNext(mkdir_ok) ==
    /\ pc = "loop"
    /\ attempt < args.max_attempts
    /\ IF attempt + 1 > 1 /\ last_failing_prompt_index # None
          /\ ~IsInt(last_failing_prompt_index)
       THEN \* '>' between a str and an int
            /\ Raise("TypeError")
            /\ exec_count' = exec_count
       ELSE IF ~mkdir_ok
       THEN /\ Raise("OSError")
            /\ exec_count' = exec_count
       ELSE /\ attempt' = attempt + 1
            /\ test_call' = TestCall(attempt', last_failing_prompt_index)
            /\ pc' = "test"
            /\ exec_count' = exec_count + 1
            /\ UNCHANGED <<result_vars, fix_session_id, attempt_history,
                           last_failing_prompt_index, all_passed, fix_ctx, failure,
                           fix_result, fix_call, token_carried>>
    /\ UNCHANGED <<inputs, scripts, exec_ended, exit_code, fix_count, attempt_outcomes>>

\* What run_skill_test can return, by the fix_context argument, with how its
\* subprocess ended.
TestResults ==
    [fc \in BOOLEAN |->
        {[ended |-> o.k,
          raises |-> run_skill_test_raises(fc, o),
          result |-> IF run_skill_test_raises(fc, o) THEN TestResult(FALSE, None)
                     ELSE run_skill_test(fc, o)] : o \in TestOutcomes}]

\* Variant of TestReturn: the frame of the call is kept after it returned.
TestReturn_KeepFrame(r) ==
    /\ pc = "test"
    /\ IF r.raises
       THEN Raise("RecursionError") /\ exec_ended' = exec_ended
       ELSE /\ all_passed' = r.result.passed
            /\ fix_ctx' = r.result.ctx
            /\ exec_ended' = r.ended
            /\ pc' = "tested"
            /\ UNCHANGED <<result_vars, attempt, fix_session_id, attempt_history,
                           last_failing_prompt_index, failure, fix_result,
                           test_call, fix_call, token_carried>>
    /\ UNCHANGED <<inputs, scripts, exit_code, counters>>

\* run_skill_test raises, or returns r.result to
\* "all_passed, fix_ctx = run_skill_test(...)".
TestReturn(r) ==
    /\ pc = "test"
    /\ IF r.raises
       THEN Raise("RecursionError") /\ exec_ended' = exec_ended
       ELSE /\ all_passed' = r.result.passed
            /\ fix_ctx' = r.result.ctx
            /\ exec_ended' = r.ended
            /\ test_call' = NoTestCall
            /\ pc' = "tested"
            /\ UNCHANGED <<result_vars, attempt, fix_session_id, attempt_history,
                           last_failing_prompt_index, failure, fix_result,
                           fix_call, token_carried>>
    /\ UNCHANGED <<inputs, scripts, exit_code, counters>>

\* "if not fix_ctx": None and the empty dict are both falsy.
NoContext(ctx) == ctx = None \/ ctx[1] = EmptyObject

\* fix_ctx.get("failure", {})
FailureOf(ctx) ==
    IF ctx.failure.t = "absent"
    THEN [t |-> "dict", complete |-> FALSE, prompt_index |-> None, sugg |-> 0]
    ELSE ctx.failure

\* The exception raised between the return of run_skill_test and
\* subprocess.run in run_fix_agent, "" if none: failure.get on a non-dict,
\* fix_context["failure"] on a missing key, failure[...] on a missing field.
ContextRaises(ctx) ==
    IF ctx.failure.t \in {"null", "nondict"} THEN "AttributeError"
    ELSE IF ctx.failure.t = "absent" THEN "KeyError"
    ELSE IF ~ctx.failure.complete THEN "KeyError"
    ELSE ""

\* Variant of ReturnTrue: the banner is printed but the loop goes on.
ReturnTrue_NoReturn ==
    /\ pc' = "loop"
    /\ attempt_outcomes' = Append(attempt_outcomes, "passed")
    /\ UNCHANGED <<result_vars, loop_locals, calls, fix_count>>

\* "if all_passed:" the SUCCESS banner and return True.
ReturnTrue ==
    /\ Leave("SUCCEEDED", Some(TRUE), "")
    /\ fix_count' = fix_count
    /\ attempt_outcomes' = Append(attempt_outcomes, "passed")

\* Variants of ContinueNoContext: the failing index is forgotten; a degraded
\* record is appended.
ContinueNoContext_Reset ==
    /\ pc' = "loop"
    /\ attempt_outcomes' = Append(attempt_outcomes, "no_context")
    /\ last_failing_prompt_index' = None
    /\ UNCHANGED <<result_vars, attempt, fix_session_id, attempt_history, all_passed,
                   fix_ctx, failure, fix_result, calls, fix_count>>
ContinueNoContext_Record ==
    /\ pc' = "loop"
    /\ attempt_outcomes' = Append(attempt_outcomes, "no_context")
    /\ attempt_history' =
           Append(attempt_history,
                  [attempt |-> attempt, files |-> {}, result |-> "still failing",
                   error_summary |-> 0])
    /\ UNCHANGED <<result_vars, attempt, fix_session_id, last_failing_prompt_index,
                   all_passed, fix_ctx, failure, fix_result, calls, fix_count>>

\* Variant of ContinueNoContext: a run without context ends the loop.
ContinueNoContext_GiveUp ==
    /\ Leave("FAILED_EXHAUSTED", Some(FALSE), "")
    /\ fix_count' = fix_count
    /\ attempt_outcomes' = Append(attempt_outcomes, "no_context")

\* "if not fix_ctx:" an error line and continue.
ContinueNoContext ==
    /\ pc' = "loop"
    /\ attempt_outcomes' = Append(attempt_outcomes, "no_context")
    /\ UNCHANGED <<result_vars, loop_locals, calls, fix_count>>

\* The arguments run_refinement_loop gives run_fix_agent.
FixCall(sid, hist) ==
    [session_id |-> sid, attempt_history |-> hist,
     resume |-> IF Truthy(sid) THEN sid ELSE None]

\* Variant of StartFix: the failing index is recorded once and then kept.
StartFix_KeepFirst ==
    /\ attempt_outcomes' = Append(attempt_outcomes, "context")
    /\ IF ContextRaises(fix_ctx[1]) # ""
       THEN /\ Raise(ContextRaises(fix_ctx[1]))
            /\ fix_count' = fix_count
       ELSE /\ failure' = FailureOf(fix_ctx[1])
            /\ last_failing_prompt_index' =
                   IF last_failing_prompt_index = None THEN failure'.prompt_index
                   ELSE last_failing_prompt_index
            /\ fix_call' = FixCall(fix_session_id, attempt_history)
            /\ fix_count' = fix_count + 1
            /\ pc' = "fix"
            /\ UNCHANGED <<result_vars, attempt, fix_session_id, attempt_history,
                           all_passed, fix_ctx, fix_result, test_call, token_carried>>

\* The failure is read and run_fix_agent is called, up to its subprocess.run.
StartFix ==
    /\ attempt_outcomes' = Append(attempt_outcomes, "context")
    /\ IF ContextRaises(fix_ctx[1]) # ""
       THEN /\ Raise(ContextRaises(fix_ctx[1]))
            /\ fix_count' = fix_count
       ELSE /\ failure' = FailureOf(fix_ctx[1])
            /\ last_failing_prompt_index' = failure'.prompt_index
            /\ fix_call' = FixCall(fix_session_id, attempt_history)
            /\ fix_count' = fix_count + 1
            /\ pc' = "fix"
            /\ UNCHANGED <<result_vars, attempt, fix_session_id, attempt_history,
                           all_passed, fix_ctx, fix_result, test_call, token_carried>>

\* The loop body after run_skill_test.
AfterTest ==
    /\ pc = "tested"
    /\ IF all_passed THEN ReturnTrue
       ELSE IF NoContext(fix_ctx) THEN ContinueNoContext
       ELSE StartFix
    /\ exec_ended' = ""
    /\ UNCHANGED <<inputs, scripts, exit_code, exec_count>>

\* The session id member a fix output carries.
TokenIn(outcome) ==
    IF outcome.k = "done" /\ outcome.stdout.k = "dict" /\ outcome.stdout.has_sid
    THEN [has |-> TRUE, sid |-> outcome.stdout.sid]
    ELSE NoToken

\* What run_fix_agent can do, by the session_id argument: raise, or return
\* a FixResult.
FixReturns ==
    [sid \in SessionIds |->
        {[raises |-> run_fix_agent_raises(o),
          result |-> IF run_fix_agent_raises(o) THEN NoFixResult
                     ELSE run_fix_agent(sid, o),
          carried |-> IF run_fix_agent_raises(o) THEN NoToken ELSE TokenIn(o)] :
            o \in FixOutcomes}]

\* run_fix_agent raises, or returns r.result to "fix_result = run_fix_agent(...)".
FixReturn(r) ==
    /\ pc = "fix"
    /\ IF r.raises
       THEN Raise("AttributeError")
       ELSE /\ fix_result' = r.result
            /\ token_carried' = r.carried
            /\ fix_call' = NoFixCall
            /\ pc' = "fixed"
            /\ UNCHANGED <<result_vars, attempt, fix_session_id, attempt_history,
                           last_failing_prompt_index, all_passed, fix_ctx, failure,
                           test_call>>
    /\ UNCHANGED <<inputs, scripts, exec_ended, exit_code, counters>>

\* fix_session_id = fix_result.get("session_id", fix_session_id)
NextSessionId(result, held) == result.session_id

AttemptRecord(a, result, fail) ==
    [attempt |-> a, files |-> result.files_changed, result |-> "still failing",
     error_summary |-> Min(fail.sugg, ErrorSummaryCap)]

\* Variant of NextHistory: the list is rebuilt from the new record alone.
NextHistory_Replace(hist, record) == <<record>>

\* Variant of NextHistory: the new record is put in front.
NextHistory_Prepend(hist, record) == <<record>> \o hist

\* attempt_history.append(record)
NextHistory(hist, record) == Append(hist, record)

\* Variant of AfterFix: a fix that changed no file ends the run.
AfterFix_StopWhenNoChange ==
    /\ pc = "fixed"
    /\ IF fix_result.files_changed = {}
       THEN Leave("FAILED_EXHAUSTED", Some(FALSE), "")
       ELSE /\ fix_session_id' = NextSessionId(fix_result, fix_session_id)
            /\ attempt_history' =
                   NextHistory(attempt_history,
                               AttemptRecord(attempt, fix_result, failure))
            /\ pc' = "loop"
            /\ UNCHANGED <<result_vars, attempt, last_failing_prompt_index,
                           all_passed, fix_ctx, failure, fix_result, calls>>
    /\ UNCHANGED <<inputs, scripts, exec_ended, exit_code, counters>>

\* The loop body after run_fix_agent: the token, the record, the prints.
AfterFix ==
    /\ pc = "fixed"
    /\ fix_session_id' = NextSessionId(fix_result, fix_session_id)
    /\ attempt_history' =
           NextHistory(attempt_history, AttemptRecord(attempt, fix_result, failure))
    /\ pc' = "loop"
    /\ UNCHANGED <<inputs, scripts, exec_ended, result_vars, attempt,
                   last_failing_prompt_index, all_passed, fix_ctx, failure,
                   fix_result, calls, exit_code, counters>>

\* Variant of MainExit: any return of the loop exits 0.
MainExit_ZeroOnReturn ==
    /\ pc = "return"
    /\ pc' = "exit"
    /\ exit_code' = IF returned # None THEN Some(0) ELSE Some(1)
    /\ UNCHANGED <<inputs, scripts, exec_ended, result_vars, loop_locals, calls, counters>>

\* sys.exit(0 if success else 1); an uncaught exception ends the process with 1.
MainExit ==
    /\ pc = "return"
    /\ pc' = "exit"
    /\ exit_code' = IF returned = Some(TRUE) THEN Some(0) ELSE Some(1)
    /\ UNCHANGED <<inputs, scripts, exec_ended, result_vars, loop_locals, calls, counters>>

Next ==
    \/ Main
    \/ ForExhausted
    \/ \E mkdir_ok \in BOOLEAN : ForNext(mkdir_ok)
    \/ \E r \in TestResults[test_call.fix_context] : TestReturn(r)
    \/ AfterTest
    \/ \E r \in FixReturns[fix_call.session_id] : FixReturn(r)
    \/ AfterFix
    \/ MainExit

Spec == Init /\ [][Next]_vars

\* --------------------------------------- runs for several (platform, scenario)
\* Command lines naming different platforms and scenarios, one attempt short
\* of the largest number of attempts.
PairArgs ==
    [scenario : {"page", "issue"}, platform : {"confluence", "jira"},
     max_attempts : {MaxAttemptsBound - 1}]

PairsInit ==
    /\ args \in PairArgs
    /\ plugin_found \in BOOLEAN
    /\ credential_found = TRUE
    /\ proc = NoProc
    /\ ScriptsIdle
    /\ exec_ended = ""
    /\ pc = "main"
    /\ state = "NOT_STARTED"
    /\ InitLocals(attempt, fix_session_id, attempt_history, last_failing_prompt_index,
                  all_passed, fix_ctx, failure, fix_result, test_call, fix_call,
                  token_carried)
    /\ returned = None
    /\ raised = ""
    /\ exit_code = None
    /\ exec_count = 0
    /\ fix_count = 0
    /\ attempt_outcomes = <<>>

SpecPairs == PairsInit /\ [][Next]_vars

\* ------------------------------------------- run_skill_test on every output
\* The first run_skill_test call of a run, its docker subprocess ended as proc.
ParseInit ==
    /\ args \in {a \in Args : a.max_attempts >= 1}
    /\ plugin_found = TRUE
    /\ credential_found = TRUE
    /\ proc \in TestOutcomes
    /\ ScriptsIdle
    /\ exec_ended = ""
    /\ pc = "test"
    /\ state = "RUNNING"
    /\ attempt = 1
    /\ fix_session_id = None
    /\ attempt_history = <<>>
    /\ last_failing_prompt_index = None
    /\ all_passed = FALSE
    /\ fix_ctx = None
    /\ failure = NoFailure
    /\ fix_result = NoFixResult
    /\ test_call = TestCall(1, None)
    /\ fix_call = NoFixCall
    /\ token_carried = NoToken
    /\ returned = None
    /\ raised = ""
    /\ exit_code = None
    /\ exec_count = 1
    /\ fix_count = 0
    /\ attempt_outcomes = <<>>

\* run_skill_test handles proc and returns.
ParseReturn ==
    TestReturn([ended |-> proc.k,
                raises |-> run_skill_test_raises(test_call.fix_context, proc),
                result |-> run_skill_test(test_call.fix_context, proc)])

ParseNext == ParseReturn

SpecParse == ParseInit /\ [][ParseNext]_vars

\* ----------------------------------- scripts/cleanup_confluence_sandbox.py
\* skill-refine-loop.py as it is before it is started, for the specifications
\* of the other programs.
RefineIdle ==
    /\ args = [scenario |-> "page", platform |-> "confluence", max_attempts |-> 0]
    /\ plugin_found = FALSE
    /\ credential_found = FALSE
    /\ proc = NoProc
    /\ exec_ended = ""
    /\ pc = "main"
    /\ state = "NOT_STARTED"
    /\ InitLocals(attempt, fix_session_id, attempt_history, last_failing_prompt_index,
                  all_passed, fix_ctx, failure, fix_result, test_call, fix_call,
                  token_carried)
    /\ returned = None
    /\ raised = ""
    /\ exit_code = None
    /\ exec_count = 0
    /\ fix_count = 0
    /\ attempt_outcomes = <<>>

\* The pages of the space on the server: whether the page carries the preserve
\* label (PRESERVE_LABEL, 'demo' by default) and how deep it is.
PageIds == 1..NumPages
Servers == [PageIds -> [labelled : BOOLEAN, depth : 0..MaxDepth]]
\* A page as get_all_pages returns it.
Page(id, server) == [id |-> id, depth |-> server[id].depth]

\* sorted(to_delete, key=depth, reverse=True): deepest first, pages of one
\* depth in their order in to_delete.
RECURSIVE SortedFrom(_, _)
SortedFrom(pages, d) ==
    LET AtDepth(q) == q.depth = d
    IN  IF d < 0 THEN <<>>
        ELSE SelectSeq(pages, AtDepth) \o SortedFrom(pages, d - 1)
SortedByDepth(pages) == SortedFrom(pages, MaxDepth)

\* The ends of the two loops of cleanup_sandbox: after the last page is
\* categorized the pages to delete are sorted, after the last deletion the
\* summary is printed and the process ends with status 0.
Deleting(c) ==
    IF c.pc = "categorize" /\ c.i > Len(c.pages)
    THEN [c EXCEPT !.pc = "delete", !.to_delete = SortedByDepth(c.to_delete), !.i = 1]
    ELSE c
Finished(c) ==
    IF c.pc = "delete" /\ c.i > Len(c.to_delete)
    THEN [c EXCEPT !.pc = "exit", !.exit_code = Some(0)]
    ELSE c
\* sys.exit(1), also main's handler of an exception.
Failed(c) == [c EXCEPT !.pc = "exit", !.exit_code = Some(1)]

\* What an HTTP request of the client can come to: a 200/204 response, another
\* status (after the retries), or an exception (connection error, timeout).
Responses == {"ok", "failed", "raise"}

\* The labels get_page_labels returns have the preserve label: [] is returned
\* for every response that is not a 200.
HasPreserveLabel(c, page, response) == response = "ok" /\ c.server[page.id].labelled

CleanupInit ==
    /\ RefineIdle
    /\ mock = NoMock
    /\ retry = NoRetry
    /\ cleanup \in {[NoCleanup EXCEPT !.pc = "start", !.server = srv] : srv \in Servers}

\* cleanup_sandbox up to the categorizing loop: require_config, get_space_id
\* and get_all_pages, which returns the pages fetched before a failed request.
CleanupStart(setup, fetched) ==
    /\ cleanup.pc = "start"
    /\ cleanup' =
          IF setup # "ok" THEN Failed(cleanup)
          ELSE Finished(Deleting(
                 [cleanup EXCEPT !.pc = "categorize", !.i = 1,
                                 !.pages = [k \in 1..fetched |-> Page(k, cleanup.server)]]))
    /\ UNCHANGED <<refine_vars, mock, retry>>

\* One iteration of "for page in pages": the label request, and for a
\* preserved page the requests of delete_comments.
Categorize(response) ==
    /\ cleanup.pc = "categorize"
    /\ LET page == cleanup.pages[cleanup.i]
       IN  cleanup' =
             IF response = "raise" THEN Failed(cleanup)
             ELSE IF HasPreserveLabel(cleanup, page, response)
             THEN Finished(Deleting(
                    [cleanup EXCEPT !.preserved = Append(@, page), !.i = @ + 1]))
             ELSE Finished(Deleting(
                    [cleanup EXCEPT !.to_delete = Append(@, page), !.i = @ + 1]))
    /\ UNCHANGED <<refine_vars, mock, retry>>

\* One iteration of "for page in to_delete_sorted".
DeletePage(response) ==
    /\ cleanup.pc = "delete"
    /\ LET page == cleanup.to_delete[cleanup.i]
       IN  cleanup' =
             IF response = "raise" THEN Failed(cleanup)
             ELSE IF response = "ok"
             THEN Finished([cleanup EXCEPT !.deleted = @ \cup {page.id},
                                           !.deleted_count = @ + 1, !.i = @ + 1])
             ELSE Finished([cleanup EXCEPT !.i = @ + 1])
    /\ UNCHANGED <<refine_vars, mock, retry>>

CleanupNext ==
    \/ \E setup \in {"no_config", "no_space", "raise", "ok"}, fetched \in 0..NumPages :
          CleanupStart(setup, fetched)
    \/ \E response \in Responses : Categorize(response)
    \/ \E response \in Responses : DeletePage(response)

SpecCleanup == CleanupInit /\ [][CleanupNext]_vars

\* ================================================================= claims
Terminated == pc \in {"return", "exit"} /\ state # "NOT_STARTED"
NoSuccessReported == \A i \in 1..Len(attempt_outcomes) : attempt_outcomes[i] # "passed"
LastOutcome ==
    IF attempt_outcomes = <<>> THEN "" ELSE attempt_outcomes[Len(attempt_outcomes)]

\* C1: a run makes at most max_attempts executor invocations, and a run in
\* which no executor invocation reports success makes exactly max_attempts of
\* them and ends FAILED_EXHAUSTED, returning False.
C1_ExactlyMaxAttempts ==
    /\ exec_count <= args.max_attempts
    /\ (Terminated /\ NoSuccessReported)
         => /\ exec_count = args.max_attempts
            /\ state = "FAILED_EXHAUSTED"
            /\ returned = Some(FALSE)

\* A step taken right after the executor reported success.
SuccessStep ==
    (pc = "tested" /\ all_passed)
      => /\ state' = "SUCCEEDED"
         /\ returned' = Some(TRUE)
         /\ exec_count' = exec_count
         /\ fix_count' = fix_count
\* A step that enters SUCCEEDED.
EntersSucceeded ==
    (state' = "SUCCEEDED" /\ state # "SUCCEEDED") => (pc = "tested" /\ all_passed)
\* A step taken in a terminal state of the controller.
TerminalStep ==
    state \in {"SUCCEEDED", "FAILED_EXHAUSTED"}
      => /\ state' = state
         /\ returned' = returned
         /\ exec_count' = exec_count
         /\ fix_count' = fix_count

\* C2: when the executor reports success the loop enters SUCCEEDED and returns
\* True without any further executor or fix-agent invocation; True is returned
\* only after a reported success; SUCCEEDED and FAILED_EXHAUSTED are absorbing
\* and exclude each other.
C2_SuccessTerminates ==
    /\ [](returned = Some(TRUE) <=> state = "SUCCEEDED")
    /\ [](state = "SUCCEEDED" => LastOutcome = "passed")
    /\ [](state = "FAILED_EXHAUSTED" => returned = Some(FALSE) /\ NoSuccessReported)
    /\ [][SuccessStep]_vars
    /\ [][EntersSucceeded]_vars
    /\ [][TerminalStep]_vars
\* The executor fails with context, the fix agent runs, the second executor
\* run passes, and the process has exited.
C2_Witness ==
    /\ pc = "exit"
    /\ state = "SUCCEEDED"
    /\ attempt_outcomes = <<"context", "passed">>
    /\ exec_count = 2
    /\ fix_count = 1
    /\ args.max_attempts = MaxAttemptsBound

\* C3: an executor invocation made while the recorded last failing prompt
\* index is k > 0 has fork_from = k - 1 and prompt_index = k.
C3_ForkFollowsFailure ==
    (pc = "test" /\ last_failing_prompt_index # None
        /\ IsInt(last_failing_prompt_index) /\ last_failing_prompt_index[1] > 0)
      => /\ test_call.fork_from = Some(last_failing_prompt_index[1] - 1)
         /\ test_call.prompt_index = last_failing_prompt_index
C3_Witness ==
    /\ pc = "test"
    /\ last_failing_prompt_index = Some(MaxStep)
    /\ test_call.fork_from = Some(MaxStep - 1)
    /\ test_call.prompt_index = Some(MaxStep)

\* C4: an executor invocation made while the recorded last failing prompt
\* index is 0 has no fork_from and prompt_index = 0.
C4_FirstPromptFromStart ==
    (pc = "test" /\ last_failing_prompt_index = Some(0))
      => /\ test_call.fork_from = None
         /\ test_call.prompt_index = Some(0)
C4_Witness ==
    /\ pc = "test"
    /\ attempt = 2
    /\ last_failing_prompt_index = Some(0)
    /\ test_call.prompt_index = Some(0)

\* A fix output returns a token when its session_id member is there and not null.
ReturnsToken(carried) == carried.has /\ carried.sid # None
InRun(p) == p \in {"loop", "test", "tested", "fix", "fixed"}

\* A step of the run changes a held non-empty token only after a fix
\* invocation, and then only to the token that invocation returned.
TokenStep ==
    (InRun(pc) /\ InRun(pc') /\ Truthy(fix_session_id))
      => IF pc = "fixed" /\ ReturnsToken(token_carried)
         THEN fix_session_id' = token_carried.sid
         ELSE fix_session_id' = fix_session_id
\* A step that starts the fix agent passes it the held token.
FixGetsToken ==
    (pc = "tested" /\ pc' = "fix") => fix_call'.session_id = fix_session_id

\* C5: the held continuation token changes only when a fix invocation returns
\* a new token (no token, a null token, a timeout and a no-context attempt
\* leave it unchanged), and every fix invocation receives the held token.
C5_TokenKept == [][TokenStep /\ FixGetsToken]_vars

\* The attempts before the current one whose executor run failed with context.
PriorContextAttempts ==
    {i \in 1..(attempt - 1) : attempt_outcomes[i] = "context"}
Labelled(h) == \A j \in 1..Len(h) : h[j].result = "still failing"
Increasing(h) == \A j \in 1..(Len(h) - 1) : h[j].attempt < h[j + 1].attempt

C7_MalformedOutputDegrades ==
    /\ raised \notin {"KeyError", "AttributeError", "TypeError", "RecursionError"}
    /\ (Terminated /\ raised # "OSError")
         => state \in {"SUCCEEDED", "FAILED_EXHAUSTED"}

\* C8: a failure to create the checkpoint directory does not raise out of
\* run_refinement_loop; the run ends SUCCEEDED or FAILED_EXHAUSTED.
C8_CheckpointFailureTolerated ==
    /\ raised # "OSError"
    /\ (Terminated
          /\ raised \notin {"KeyError", "AttributeError", "TypeError", "RecursionError"})
         => state \in {"SUCCEEDED", "FAILED_EXHAUSTED"}

\* The step after an executor run that failed with no failure context.
NoContextStep ==
    (pc = "tested" /\ ~all_passed /\ (fix_ctx = None \/ fix_ctx = Some(EmptyObject)))
      => /\ pc' = "loop"
         /\ state' = "RUNNING"
         /\ attempt' = attempt
         /\ fix_count' = fix_count
         /\ fix_call' = NoFixCall
         /\ fix_session_id' = fix_session_id
         /\ last_failing_prompt_index' = last_failing_prompt_index
\* The step at the head of the loop: exhaustion exactly when attempt n was the
\* last one, otherwise attempt n + 1.
LoopHeadStep ==
    pc = "loop"
      => IF attempt >= args.max_attempts
         THEN state' = "FAILED_EXHAUSTED" /\ pc' = "return"
         ELSE /\ state' # "FAILED_EXHAUSTED"
              /\ pc' = "test" => (attempt' = attempt + 1 /\ exec_count' = exec_count + 1)

\* C9: after an executor failure without context the fix agent is not invoked
\* in that attempt, the token and the last failing index are unchanged, and
\* the loop goes to attempt n + 1, or ends FAILED_EXHAUSTED when n is
\* max_attempts.
C9_NoContextContinues == [][NoContextStep /\ LoopHeadStep]_vars
\* A no-context failure in attempt 2, with a token and a failing index held
\* from attempt 1 and an attempt left.
C9_Witness ==
    /\ pc = "loop"
    /\ attempt = 2
    /\ attempt < args.max_attempts
    /\ attempt_outcomes = <<"context", "no_context">>
    /\ Truthy(fix_session_id)
    /\ last_failing_prompt_index = Some(MaxStep)
    /\ fix_count = 1

NoContextKeepsHistory ==
    (pc = "tested" /\ ~all_passed /\ (fix_ctx = None \/ fix_ctx = Some(EmptyObject)))
      => attempt_history' = attempt_history
ContextAttempts ==
    {i \in 1..Len(attempt_outcomes) : attempt_outcomes[i] = "context"}

ContextStep ==
    (pc = "tested" /\ ~all_passed /\ ~NoContext(fix_ctx))
      => /\ pc' = "fix"
         /\ fix_count' = fix_count + 1
         /\ fix_call'.attempt_history = attempt_history
         /\ fix_call'.session_id = fix_session_id
\* The fix agent returns to the loop, and is not started again.
FixStep ==
    pc = "fix" => (pc' = "fixed" /\ fix_count' = fix_count /\ attempt' = attempt)
\* The step after the fix agent returned appends one record, for this attempt,
\* and goes to the head of the loop.
RecordStep ==
    pc = "fixed"
      => /\ Len(attempt_history') = Len(attempt_history) + 1
         /\ SubSeq(attempt_history', 1, Len(attempt_history)) = attempt_history
         /\ attempt_history'[Len(attempt_history')].attempt = attempt
         /\ fix_count' = fix_count
         /\ pc' = "loop"
         /\ state' = "RUNNING"

\* C11: when the executor fails with context in attempt n, the fix agent is
\* invoked exactly once in that attempt with the accumulated history and the
\* prior token, then exactly one record (attempt n) is appended and the loop
\* continues.
C11_FixThenRecord == [][ContextStep /\ FixStep /\ RecordStep]_vars

\* The JSON objects run_skill_test can take from a finished subprocess: the
\* whole output, or the output from its first '{'.
IsObject(parsed) == parsed # None /\ parsed[1].k = "obj"
ParsedObjects(outcome) ==
    LET stdout == Strip(outcome.stdout)
        whole == json_loads(stdout)
        tail == IF BraceSegment(stdout) > 0 THEN json_loads(FromBrace(stdout)) ELSE None
    IN  IF outcome.k # "done" THEN {}
        ELSE {q[1].v : q \in {x \in {whole, tail} : IsObject(x)}}
\* The return of a run_skill_test call that asked for context output.
ParseStep ==
    (pc = "test" /\ test_call.fix_context)
      => /\ all_passed' => \E o \in ParsedObjects(proc) : o.status = "all_passed"
         /\ ParsedObjects(proc) = {}
              => (pc' = "tested" /\ ~all_passed' /\ fix_ctx' = None)
         /\ proc.k \in {"timeout", "error"}
              => (pc' = "tested" /\ ~all_passed' /\ fix_ctx' = None)

\* C12: run_skill_test, asked for context output, reports passed = True only
\* when the output parses to a JSON object with status "all_passed"; a
\* timeout, a launch error and an output from which no JSON object parses are
\* reported as (False, None).
C12_PassedOnlyIfAllPassed == [][ParseStep]_vars
\* The subprocess exited 0 and printed diagnostics only: reported as failed,
\* with no context.
C12_Witness ==
    /\ pc = "tested"
    /\ proc.k = "done"
    /\ proc.returncode = 0
    /\ Len(proc.stdout) = 1
    /\ proc.stdout[1].k = "log"
    /\ ~all_passed
    /\ fix_ctx = None

\* A call of run_fix_agent returns a FixResult to the loop; a timeout and an
\* invocation error are reported in it.
FixAgentReturns ==
    pc = "fix"
      => /\ raised' = ""
         /\ pc' = "fixed"
         /\ fix_result'.summary \in {"Fix agent timed out", "Fix agent error"}
              => ~fix_result'.success
\* A failure context that run_refinement_loop accepts does not make
\* run_fix_agent raise on its way to the agent.
FixAgentStarts ==
    (pc = "tested" /\ ~all_passed /\ ~NoContext(fix_ctx)
        /\ fix_ctx[1].failure.t \in {"absent", "dict"})
      => raised' = ""

\* C13: run_fix_agent never raises to its caller: on a timeout, an invocation
\* error and any agent output it returns a FixResult, with success = False
\* and an explanatory summary in the timeout and error cases.
C13_FixAgentNeverRaises == [][FixAgentReturns /\ FixAgentStarts]_vars

\* The step after the fix agent returned: where the loop goes next does not
\* depend on the fix result; of the result only the session id is kept as state.
FixResultIgnored ==
    pc = "fixed"
      => /\ pc' = "loop"
         /\ state' = state
         /\ returned' = returned
         /\ raised' = raised
         /\ attempt' = attempt
         /\ last_failing_prompt_index' = last_failing_prompt_index
         /\ exec_count' = exec_count
         /\ fix_count' = fix_count
         /\ fix_session_id' = fix_result.session_id

\* C14: the control flow does not depend on the fix result's files_changed
\* and success: after any fix result the loop goes to its head with the
\* attempt number and the state unchanged, and the terminal state and the
\* number of attempts made are decided by the executor results alone (success
\* on a passed run, exhaustion after max_attempts runs without one).
C14_FixResultNotControl ==
    /\ [][FixResultIgnored]_vars
    /\ [](state \in {"SUCCEEDED", "FAILED_EXHAUSTED"}
            => /\ exec_count = Len(attempt_outcomes)
               /\ state = "SUCCEEDED" <=> LastOutcome = "passed"
               /\ state = "FAILED_EXHAUSTED" => exec_count = args.max_attempts)
\* Attempt 2's executor is started after a fix that reported failure and no
\* changed file.
C14_Witness ==
    /\ pc = "test"
    /\ attempt = 2
    /\ fix_result.summary = "output"
    /\ ~fix_result.success
    /\ fix_result.files_changed = {}

FixAgentFailed(result) == result.summary \in {"Fix agent timed out", "Fix agent error"}
\* The step after an executor run that timed out or could not be launched.
ExecutorTimeoutStep ==
    (pc = "tested" /\ exec_ended \in {"timeout", "error"})
      => /\ pc' = "loop"
         /\ state' = "RUNNING"
         /\ raised' = ""
         /\ attempt' = attempt
\* The return of a fix agent that timed out or could not be launched, and the
\* step after it.
FixTimeoutStep ==
    /\ (pc = "fix" /\ pc' = "fixed" /\ FixAgentFailed(fix_result'))
         => (state' = "RUNNING" /\ ~fix_result'.success)
    /\ (pc = "fixed" /\ FixAgentFailed(fix_result))
         => /\ pc' = "loop"
            /\ state' = "RUNNING"
            /\ raised' = ""
            /\ attempt' = attempt

\* C15: a timeout or a launch error of the executor or of the fix agent in
\* attempt n is not fatal: the loop goes back to its head, from where it goes
\* to attempt n + 1, or ends FAILED_EXHAUSTED when n is max_attempts.
C15_TimeoutRecoverable ==
    [][ExecutorTimeoutStep /\ FixTimeoutStep /\ LoopHeadStep]_vars
\* The fix agent of attempt 1 timed out, attempt 2 was made and its executor
\* timed out, and attempts are left.
C15_Witness ==
    /\ pc = "tested"
    /\ attempt = 2
    /\ attempt < args.max_attempts
    /\ exec_ended = "timeout"
    /\ fix_result.summary = "Fix agent timed out"
    /\ fix_count = 1

\* C16: every executor invocation after the first follows the most recent
\* reported failure, not the first one: when that failure was at step k > 0
\* the invocation forks from checkpoint k - 1 and resumes at step k (step 2
\* failed: fork from 1, resume at 2; then step 3 failed: fork from 2, resume
\* at 3).
C16_ForkFollowsLatestFailure ==
    (pc = "test" /\ attempt > 1)
      => /\ last_failing_prompt_index = failure.prompt_index
         /\ (IsInt(failure.prompt_index) /\ failure.prompt_index[1] > 0)
              => /\ test_call.fork_from = Some(failure.prompt_index[1] - 1)
                 /\ test_call.prompt_index = failure.prompt_index
\* Step 2 failed in attempt 1 and step 3 in attempt 2: attempt 3 forks from
\* checkpoint 2 and resumes at step 3.
C16_Witness ==
    /\ pc = "test"
    /\ attempt = 3
    /\ attempt_outcomes = <<"context", "context">>
    /\ Len(attempt_history) = 2
    /\ failure.prompt_index = Some(3)
    /\ test_call.fork_from = Some(2)
    /\ test_call.prompt_index = Some(3)

\* C17: the executor invocation of attempt 1 has no fork point and no resume
\* step; it is given the checkpoint file path of the (platform, scenario) pair,
\* whose content the controller does not read.
C17_FirstAttemptFromStart ==
    (pc = "test" /\ attempt = 1)
      => /\ test_call.fork_from = None
         /\ test_call.prompt_index = None
         /\ last_failing_prompt_index = None
\* The first executor invocation of a run, with the checkpoint file path.
C17_Witness ==
    /\ pc = "test"
    /\ attempt = 1
    /\ exec_count = 1
    /\ test_call.checkpoint_file = Some(CheckpointFile(args.platform, args.scenario))
    /\ test_call.fork_from = None
    /\ test_call.prompt_index = None

\* C18: a missing plugin path or a missing platform credential is fatal: the
\* loop is never started, no executor or fix agent is invoked, and the
\* process exits non-zero.
C18_SetupErrorsFatal ==
    (~plugin_found \/ ~credential_found)
      => /\ state = "NOT_STARTED"
         /\ pc \in {"main", "exit"}
         /\ exec_count = 0
         /\ fix_count = 0
         /\ pc = "exit" => (exit_code # None /\ exit_code # Some(0))

ExecutorInFlight == test_call # NoTestCall
FixInFlight == pc = "fix"
\* A sub-invocation is started only while none is in flight: the executor at
\* the head of the loop, the fix agent after the executor of its attempt
\* returned; nothing is started while the fix agent runs.
StartsInOrder ==
    /\ exec_count' # exec_count
         => /\ exec_count' = exec_count + 1
            /\ pc = "loop" /\ pc' = "test"
            /\ ~ExecutorInFlight /\ ~FixInFlight
    /\ fix_count' # fix_count
         => /\ fix_count' = fix_count + 1
            /\ pc = "tested" /\ pc' = "fix"
            /\ ~ExecutorInFlight /\ ~FixInFlight
            /\ exec_count = attempt
    /\ (ExecutorInFlight \/ FixInFlight)
         => (exec_count' = exec_count /\ fix_count' = fix_count)

\* C20: at most one sub-invocation is in flight at any time; within an
\* attempt the executor has returned before the fix agent is started, and the
\* fix agent has returned before the next attempt's executor is started.
C20_OneInvocationInFlight ==
    /\ [](~(ExecutorInFlight /\ FixInFlight))
    /\ [](ExecutorInFlight <=> pc = "test")
    /\ [](fix_count <= exec_count /\ exec_count <= args.max_attempts)
    /\ [][StartsInOrder]_vars
\* The fix agent of attempt 2 is running; both executor runs have returned.
C20_Witness ==
    /\ pc = "fix"
    /\ attempt = 2
    /\ exec_count = 2
    /\ fix_count = 2
    /\ test_call = NoTestCall

\* run_skill_test returns what the object o says: success for the status
\* "all_passed", otherwise a failure with o as its context.
Reported(o) ==
    /\ pc' = "tested"
    /\ IF o.status = "all_passed"
       THEN all_passed' /\ fix_ctx' = None
       ELSE ~all_passed' /\ fix_ctx' = Some(o)
\* The return of run_skill_test for a finished subprocess: a clean object and
\* a log-prefixed object are reported, output without a parseable object is
\* (False, None).
ExtractionOrder ==
    (pc = "test" /\ test_call.fix_context /\ proc.k = "done")
      => LET t == Strip(proc.stdout)
         IN  /\ (Len(t) = 1 /\ t[1].k = "obj") => Reported(t[1].v)
             /\ (Len(t) = 2 /\ t[1].k = "log" /\ t[2].k = "obj") => Reported(t[2].v)
             /\ ParsedObjects(proc) = {} => (~all_passed' /\ fix_ctx' = None)
\* No output makes run_skill_test raise.
ExtractionNeverRaises ==
    (pc = "test" /\ test_call.fix_context /\ proc.k = "done")
      => (pc' = "tested" /\ raised' = "")

\* C21: the extraction parses the whole trimmed output, otherwise the output
\* from its first '{', otherwise yields nothing: a clean object and a
\* log-prefixed object both yield that object, and output with no parseable
\* object yields no context, without raising.
C21_ExtractionOrder == [][ExtractionOrder /\ ExtractionNeverRaises]_vars

\* The checkpoint index of a fork point, -1 for a run from the start.
ForkRank(fork) == IF fork = None THEN -1 ELSE fork[1]
\* The step the attempt a resumed from, 0 for a run from the start.
Resumed(a, last) == IF PromptIndex(a, last) = None THEN 0 ELSE PromptIndex(a, last)[1]
\* A step in which the loop takes a failure context from the executor.
ReportStep == pc = "tested" /\ pc' = "fix"
\* The index just reported is not below the step the attempt resumed from.
NotBelowResumed ==
    /\ IsInt(last_failing_prompt_index')
    /\ last_failing_prompt_index'[1] >= Resumed(attempt, last_failing_prompt_index)
\* The fork point of the next attempt is not below the fork point of this one.
ForkNotLower ==
    ForkRank(ForkFrom(attempt + 1, last_failing_prompt_index'))
      >= ForkRank(ForkFrom(attempt, last_failing_prompt_index))
\* A later attempt made after a failure context was reported.
AfterReport == pc = "test" /\ attempt > 1 /\ fix_count > 0

\* C22 (as claimed): if no reported failing index is below the step resumed
\* from, the fork point never decreases from one attempt to the next, and a
\* later attempt runs from the start exactly when the latest reported failing
\* index is 0.
C22_ForkMonotone ==
    /\ [][(ReportStep /\ (last_failing_prompt_index' = None \/ NotBelowResumed))
            => ForkNotLower]_vars
    /\ []((AfterReport /\ (failure.prompt_index = None \/ failure.prompt_index[1] >= 0))
            => (test_call.fork_from = None <=> failure.prompt_index = Some(0)))

\* C22 (amended): if every failure context carries an integer failing index
\* not below the step resumed from, the fork point never decreases from one
\* attempt to the next; a later attempt runs from the start exactly when the
\* latest reported failing index is 0 or is unknown (absent or null).
C22_ForkMonotoneWhenIndexed ==
    /\ [][(ReportStep /\ NotBelowResumed) => ForkNotLower]_vars
    /\ []((AfterReport /\ (failure.prompt_index = None \/ failure.prompt_index[1] >= 0))
            => (test_call.fork_from = None
                  <=> failure.prompt_index \in {Some(0), None}))
    /\ [](pc = "test" => test_call.fork_from = ForkFrom(attempt, last_failing_prompt_index))
\* Attempt 3 forks from checkpoint 1 after the failures of attempts 1 and 2
\* were both reported at step 2.
C22_Witness ==
    /\ pc = "test"
    /\ attempt = 3
    /\ fix_count = 2
    /\ failure.prompt_index = Some(2)
    /\ test_call.fork_from = Some(1)
    /\ test_call.prompt_index = Some(2)

\* C23: every executor invocation of a run is given the checkpoint file of the
\* run's (platform, scenario) pair, which the command line fixes for the run:
\* the same reference in every attempt.
C23_OneCheckpointFile ==
    /\ [](pc = "test"
            => test_call.checkpoint_file
                 = Some(CheckpointFile(args.platform, args.scenario)))
    /\ [][args' = args]_vars
    /\ [][(pc = "loop" /\ pc' = "test")
            => test_call'.checkpoint_file
                 = Some(<<"/tmp/checkpoints", args.platform, args.scenario>>)]_vars
\* The second attempt of a run for (jira, issue).
C23_Witness ==
    /\ pc = "test"
    /\ attempt = 2
    /\ args.platform = "jira"
    /\ args.scenario = "issue"
    /\ test_call.checkpoint_file = Some(<<"/tmp/checkpoints", "jira", "issue">>)

\* The fix agent is started in resume mode with the held token when one is
\* held, and as a fresh session when none is.
ResumesHeldToken ==
    pc = "fix"
      => /\ fix_call.session_id = fix_session_id
         /\ Truthy(fix_session_id) => fix_call.resume = fix_session_id
         /\ ~Truthy(fix_session_id) => fix_call.resume = None
\* A token obtained in an attempt is still held in every later attempt of the
\* run, until a fix invocation returns another token.
HeldTokenStays ==
    (InRun(pc) /\ InRun(pc') /\ Truthy(fix_session_id))
      => (fix_session_id' = fix_session_id
            \/ (pc = "fixed" /\ ReturnsToken(token_carried)
                  /\ fix_session_id' = token_carried.sid))

\* C24: when a continuation token from a prior attempt exists the fix agent is
\* invoked in resume mode with exactly that token, and when none has been
\* obtained it starts a fresh session: every fix invocation resumes the held
\* token, and a token once obtained stays held.
C24_ResumesPriorToken == [](ResumesHeldToken) /\ [][HeldTokenStays]_vars

\* C25: cleanup_sandbox never deletes a page that carries the preserve label,
\* whatever the pages of the space and the outcomes of the label requests.
C25_LabelledNeverDeleted ==
    \A id \in cleanup.deleted : ~cleanup.server[id].labelled

\* ---------------------------------------------------------------------
\* demo-container/patches/sitecustomize.py: persistence of the mock
\* Confluence client's pages across CLI invocations.
\* ---------------------------------------------------------------------

\* CONFLUENCE_SEED_IDS, numbered: 1 stands for "DEMO_SPACE", 2 for
\* "DEMO_HOME", 3 for "CDEMO".  The pages a client creates take their key
\* from its counter, which starts at DefaultNextId.
CONFLUENCE_SEED_IDS == {1, 2, 3}
\* The pages the unpatched constructor gives every client.
SeedPages == [id \in {2} |-> 1]
CreatedIds == DefaultNextId .. (DefaultNextId + MaxCreated - 1)

Max(a, b) == IF a >= b THEN a ELSE b
Put(pages, key, item) ==
    [k \in DOMAIN pages \cup {key} |-> IF k = key THEN item ELSE pages[k]]
Remove(pages, key) == [k \in DOMAIN pages \ {key} |-> pages[k]]
\* dict.update
Update(pages, more) ==
    [k \in DOMAIN pages \cup DOMAIN more |-> IF k \in DOMAIN more THEN more[k] ELSE pages[k]]

\* json.dumps of the data dict: its members as <<key, item>> pairs.
JsonDump(data) == {<<k, data[k]>> : k \in DOMAIN data}
\* json.loads of such an object: the dict of its members.
JsonLoad(members) ==
    [k \in {m[1] : m \in members} |-> (CHOOSE m \in members : m[1] = k)[2]]

\* The outcomes of state_file.write_text: written, refused before the file
\* was opened (the old file stays), or failed after it was truncated.
WriteOutcomes == {"ok", "refused", "truncated"}

\* _save_state mutant: seed items are written as well.
_save_state_WithSeeds(m, data, next_id, outcome) ==
    IF ~m.mode THEN [m EXCEPT !.last_write = "skipped"]
    ELSE IF outcome = "ok"
    THEN [m EXCEPT !.file = [k |-> "state", next_id |-> next_id, data |-> JsonDump(data)],
                   !.last_write = "ok"]
    ELSE IF outcome = "truncated"
    THEN [m EXCEPT !.file = [k |-> "unreadable", next_id |-> 0, data |-> {}],
                   !.last_write = "failed"]
    ELSE [m EXCEPT !.last_write = "failed"]

\* _save_state: nothing outside mock mode; otherwise next_id and the items
\* whose key is not a seed id, every exception swallowed.
_save_state(m, data, next_id, outcome) ==
    IF ~m.mode THEN [m EXCEPT !.last_write = "skipped"]
    ELSE IF outcome = "ok"
    THEN [m EXCEPT !.file = [k |-> "state", next_id |-> next_id,
                             data |-> JsonDump([k \in DOMAIN data \ CONFLUENCE_SEED_IDS |-> data[k]])],
                   !.last_write = "ok"]
    ELSE IF outcome = "truncated"
    THEN [m EXCEPT !.file = [k |-> "unreadable", next_id |-> 0, data |-> {}],
                   !.last_write = "failed"]
    ELSE [m EXCEPT !.last_write = "failed"]

\* _load_state: ({}, 100) for a missing or unreadable file, else the
\* file's data and next_id.
_load_state(file) ==
    IF file.k = "state"
    THEN [data |-> JsonLoad(file.data), next_id |-> file.next_id]
    ELSE [data |-> <<>>, next_id |-> DefaultNextId]

\* state_file.exists() is called outside the try block: it raises OSError
\* when the path cannot be examined (no search permission on its directory,
\* a name that is too long).
_load_state_raises(m) == ~m.reachable

\* patched_init of _patch_confluence_mock_client: the original constructor,
\* then the persisted pages and counter when there are persisted pages.
patched_init(file) ==
    LET persisted == _load_state(file) IN
    IF DOMAIN persisted.data # {}
    THEN [live |-> TRUE, pages |-> Update(SeedPages, persisted.data),
          next_id |-> Max(DefaultNextId, persisted.next_id)]
    ELSE [live |-> TRUE, pages |-> SeedPages, next_id |-> DefaultNextId]

\* _wrap_with_persistence: the wrapped method has left pages and next_id and
\* returned result; every wrapper around it saves the state, and the result
\* is returned.
Saved(m, pages, next_id, outcome, result) ==
    LET done == [m EXCEPT !.client.pages = pages, !.client.next_id = next_id,
                          !.saves = m.wrappers, !.result = result, !.raised = "",
                          !.last_write = "none"]
    IN  IF m.wrappers = 0 THEN done
        ELSE _save_state(done, pages, next_id, IF m.reachable THEN outcome ELSE "refused")

\* Variant of the patcher: no look at _mock_persistence_patched.
_patch_confluence_mock_client_Unguarded(m) ==
    [m EXCEPT !.patched = TRUE, !.wrappers = @ + 1]

\* _patch_confluence_mock_client: __init__ and the mutation methods get one
\* more wrapper unless the class is marked as patched.
_patch_confluence_mock_client(m) ==
    IF m.patched THEN m ELSE [m EXCEPT !.patched = TRUE, !.wrappers = @ + 1]

\* MockPersistenceImportHook.load_module for a module that is loaded.
load_module(m) == IF ~m.patched THEN _patch_confluence_mock_client(m) ELSE m

MockInit ==
    /\ RefineIdle
    /\ cleanup = NoCleanup
    /\ retry = NoRetry
    /\ \E mode \in BOOLEAN, reachable \in BOOLEAN :
           mock = [NoMock EXCEPT !.mode = mode, !.reachable = reachable]

\* A CLI invocation: the import hook loads the module and patches its class
\* (load_module, first import), then the client is constructed.
NewClient ==
    /\ LET cls == _patch_confluence_mock_client(
                      [mock EXCEPT !.patched = FALSE, !.wrappers = 0, !.patch_runs = 1,
                                   !.saves = 0, !.result = 0, !.raised = "",
                                   !.last_write = "none"])
       IN  mock' = IF _load_state_raises(cls)
                   THEN [cls EXCEPT !.client = NoClient, !.raised = "OSError"]
                   ELSE [cls EXCEPT !.client = patched_init(cls.file)]
    /\ UNCHANGED <<refine_vars, cleanup, retry>>

\* The patcher, or load_module, runs again for the class.
PatchAgain(via) ==
    /\ mock.patched
    /\ mock.patch_runs < MaxPatchRuns
    /\ mock' = [(IF via = "patcher" THEN _patch_confluence_mock_client(mock)
                 ELSE load_module(mock)) EXCEPT !.patch_runs = @ + 1]
    /\ UNCHANGED <<refine_vars, cleanup, retry>>

\* create_page, wrapped.
create_page(outcome) ==
    /\ mock.client.live
    /\ mock.client.next_id < DefaultNextId + MaxCreated
    /\ mock' = Saved(mock, Put(mock.client.pages, mock.client.next_id, 1),
                     mock.client.next_id + 1, outcome, mock.client.next_id)
    /\ UNCHANGED <<refine_vars, cleanup, retry>>

\* update_page and move_page, wrapped.
update_page(id, outcome) ==
    /\ mock.client.live
    /\ id \in DOMAIN mock.client.pages
    /\ mock.client.pages[id] < MaxVersion
    /\ mock' = Saved(mock, Put(mock.client.pages, id, mock.client.pages[id] + 1),
                     mock.client.next_id, outcome, id)
    /\ UNCHANGED <<refine_vars, cleanup, retry>>

\* delete_page, wrapped.
delete_page(id, outcome) ==
    /\ mock.client.live
    /\ id \in DOMAIN mock.client.pages
    /\ mock' = Saved(mock, Remove(mock.client.pages, id), mock.client.next_id, outcome, id)
    /\ UNCHANGED <<refine_vars, cleanup, retry>>

MockNext ==
    \/ NewClient
    \/ \E via \in {"patcher", "load_module"} : PatchAgain(via)
    \/ \E outcome \in WriteOutcomes : create_page(outcome)
    \/ \E id \in {2} \cup CreatedIds, outcome \in WriteOutcomes : update_page(id, outcome)
    \/ \E id \in {2} \cup CreatedIds, outcome \in WriteOutcomes : delete_page(id, outcome)

SpecMock == MockInit /\ [][MockNext]_vars

\* The pages of a client that are not seed pages.
NonSeed(pages) == [k \in DOMAIN pages \ CONFLUENCE_SEED_IDS |-> pages[k]]
\* A client constructed now would hold exactly the non-seed pages the live
\* client held when its last wrapped mutation saved them.
SavedPagesComeBack ==
    (mock.mode /\ mock.client.live /\ mock.last_write = "ok")
        => NonSeed(patched_init(mock.file).pages) = NonSeed(mock.client.pages)
\* The client a CLI invocation has just constructed holds the non-seed
\* pages of the state file, and no other.
NewClientHoldsFile ==
    (mock.client.live /\ mock.last_write = "none" /\ mock.file.k = "state")
        => NonSeed(mock.client.pages) = JsonLoad(mock.file.data)
NoSeedWritten == \A m \in mock.file.data : m[1] \notin CONFLUENCE_SEED_IDS
NothingWrittenOutsideMockMode == ~mock.mode => mock.file = NoFile

OneFixPerContextFailure == fix_count = Cardinality(ContextAttempts)
\* A finished run in which every attempt failed with context made
\* max_attempts fix invocations.
FixEveryAttempt ==
    (Terminated /\ ContextAttempts = 1..Len(attempt_outcomes) /\ attempt_outcomes # <<>>)
        => fix_count = args.max_attempts
\* No executor invocation after the fix invocation of the final attempt.
NoExecutorAfterLastFix ==
    (fix_count = args.max_attempts) => (exec_count' = exec_count)

\* C27: the fix agent is invoked once for every attempt that fails with
\* context, the final attempt included: a run in which every attempt fails
\* with context makes max_attempts fix invocations, and no executor
\* invocation follows the last of them.
C27_FixEveryContextFailure ==
    /\ [](OneFixPerContextFailure /\ FixEveryAttempt)
    /\ [][NoExecutorAfterLastFix]_vars

\* A step taken right after the executor failed without a fix context keeps
\* the recorded failing index.
NoContextKeepsIndex ==
    (pc = "tested" /\ ~all_passed /\ NoContext(fix_ctx))
        => last_failing_prompt_index' = last_failing_prompt_index
\* The executor invocation of an attempt that follows a no-context failure.
AfterNoContext ==
    /\ pc = "test"
    /\ attempt > 1
    /\ attempt_outcomes[attempt - 1] = "no_context"
\* Its fork point and resume step come from the most recent failure that
\* carried context, and it runs from the start when there was none.
ForkFromLatestContext ==
    AfterNoContext =>
        IF ContextAttempts = {}
        THEN test_call.fork_from = None /\ test_call.prompt_index = None
        ELSE /\ last_failing_prompt_index = failure.prompt_index
             /\ (IsInt(failure.prompt_index) /\ failure.prompt_index[1] > 0)
                  => /\ test_call.fork_from = Some(failure.prompt_index[1] - 1)
                     /\ test_call.prompt_index = failure.prompt_index
             /\ failure.prompt_index = Some(0)
                  => /\ test_call.fork_from = None
                     /\ test_call.prompt_index = Some(0)
             /\ failure.prompt_index = None
                  => /\ test_call.fork_from = None
                     /\ test_call.prompt_index = None

\* C28: a failure without context leaves the last failing prompt index as
\* it was: the next attempt takes its fork point and resume step from the
\* most recent failure that did carry context, or runs from the start if
\* there was none.
C28_IndexKeptAcrossNoContext ==
    /\ []ForkFromLatestContext
    /\ [][NoContextKeepsIndex]_vars
\* Attempt 1 failed at step 2 with context, attempt 2 without context:
\* attempt 3 forks from checkpoint 1 and resumes at step 2.
C28_Witness ==
    /\ pc = "test"
    /\ attempt = 3
    /\ attempt_outcomes = <<"context", "no_context">>
    /\ failure.prompt_index = Some(2)
    /\ test_call.fork_from = Some(1)
    /\ test_call.prompt_index = Some(2)

\* run_fix_agent returns from a timeout or a launch failure: the result
\* carries the session id it was called with and no changed file.
FailedFixReturn ==
    (pc = "fix" /\ pc' = "fixed" /\ FixAgentFailed(fix_result'))
        => /\ fix_result'.session_id = fix_call.session_id
           /\ fix_result'.session_id = fix_session_id
           /\ fix_result'.files_changed = {}
\* The loop body after such a return leaves the controller's token as it was.
FailedFixKeepsToken ==
    (pc = "fixed" /\ FixAgentFailed(fix_result))
        => /\ pc' = "loop"
           /\ fix_session_id' = fix_session_id

\* C29: when the fix agent times out or cannot be launched, the FixResult
\* carries the session id that was passed in and an empty list of changed
\* files, so the controller's token after the attempt is its token before.
C29_FailedFixKeepsToken == [][FailedFixReturn /\ FailedFixKeepsToken]_vars
\* The fix agent of attempt 2 failed while the controller held a token from
\* attempt 1, and the loop went on holding it.
C29_Witness ==
    /\ pc = "loop"
    /\ attempt = 2
    /\ attempt_outcomes = <<"context", "context">>
    /\ FixAgentFailed(fix_result)
    /\ fix_session_id = Some(1)
    /\ Len(attempt_history) = 2

\* h is an initial part of g.
IsPrefix(h, g) == Len(h) <= Len(g) /\ SubSeq(g, 1, Len(h)) = h
\* While the run goes on, a step leaves the records of the history as they
\* are and in place, and adds at most one record, of the current attempt.
HistoryAppendOnly ==
    (pc' # "return")
        => /\ IsPrefix(attempt_history, attempt_history')
           /\ Len(attempt_history') <= Len(attempt_history) + 1
           /\ Len(attempt_history') = Len(attempt_history) + 1
                => attempt_history'[Len(attempt_history')].attempt = attempt
HistoryAtFix ==
    pc = "fix"
        => /\ fix_call.attempt_history = attempt_history
           /\ Len(fix_call.attempt_history) <= attempt - 1

\* C30: within a run the attempt history is append-only: records are never
\* modified or removed, its attempt numbers are strictly increasing, it has
\* at most n-1 records when the fix agent is invoked in attempt n, and every
\* record is labelled "still failing".
C30_HistoryAppendOnly ==
    /\ [](Increasing(attempt_history) /\ Labelled(attempt_history) /\ HistoryAtFix)
    /\ [][HistoryAppendOnly]_vars
\* The fix agent of attempt 3 is invoked with the two records of attempts 1
\* and 2.
C30_Witness ==
    /\ pc = "fix"
    /\ attempt = 3
    /\ Len(fix_call.attempt_history) = 2
    /\ fix_call.attempt_history[1].attempt = 1
    /\ fix_call.attempt_history[2].attempt = 2
    /\ fix_count = 3

\* C31: every executor invocation run_refinement_loop makes asks for
\* fail-fast mode, for one continuous conversation and for the structured
\* failure context; no attempt runs the executor without them.
C31_ExecutorOptions ==
    pc = "test"
        => /\ exec_count >= 1
           /\ {"--fail-fast", "--conversation", "--fix-context"}
                  \subseteq InnerCmdOptions(test_call)
\* The executor invocation of a later attempt, resumed from a fork point.
C31_Witness ==
    /\ pc = "test"
    /\ attempt = 2
    /\ exec_count = 2
    /\ "--fork-from" \in InnerCmdOptions(test_call)
    /\ "--fail-fast" \in InnerCmdOptions(test_call)

\* ---------------------------------------------------------------------
\* scripts/confluence_base.py: retry_on_failure.
\* ---------------------------------------------------------------------

RETRYABLE_STATUS_CODES == {429, 500, 502, 503, 504}
\* The status codes of the modelled responses.
StatusCodes == {200, 404} \cup RETRYABLE_STATUS_CODES
RetryAfterHeaders ==
    {NoHeader, [k |-> "empty", v |-> 0], [k |-> "date", v |-> 0]}
    \cup {[k |-> "seconds", v |-> n] : n \in 0..MaxRetryAfter}
\* What one call of the wrapped function does: it returns a response, or
\* raises requests' ConnectionError or Timeout, or another exception.
CallOutcomes ==
    {[k |-> "response", status_code |-> c, retry_after |-> NoHeader] :
        c \in StatusCodes \ {429}}
    \cup {[k |-> "response", status_code |-> 429, retry_after |-> h] : h \in RetryAfterHeaders}
    \cup {[k |-> e, status_code |-> 0, retry_after |-> NoHeader] :
        e \in {"ConnectionError", "Timeout", "TooManyRedirects"}}

RECURSIVE Pow2(_)
Pow2(n) == IF n = 0 THEN 1 ELSE 2 * Pow2(n - 1)

\* Variant of Retryable: every error status is retried.
Retryable_AnyError(response) == response.status_code >= 400

\* response.status_code in RETRYABLE_STATUS_CODES
Retryable(response) == response.status_code \in RETRYABLE_STATUS_CODES

\* base_delay * (2 ** attempt)
Backoff(base_delay, n) == base_delay * Pow2(n)

\* float(retry_after) raises ValueError for a value that is no number.
RetryAfterRaises(response) ==
    response.status_code = 429 /\ response.retry_after.k = "date"

\* The delay before the retry that follows a retryable response.
ResponseDelay(base_delay, n, response) ==
    IF response.status_code = 429 /\ response.retry_after.k = "seconds"
    THEN Max(Backoff(base_delay, n), response.retry_after.v)
    ELSE Backoff(base_delay, n)

Returns(r, response) == [r EXCEPT !.pc = "returned", !.returned = response]
Raises(r, exc) == [r EXCEPT !.pc = "raised", !.raised = exc]
Sleeps(r, delay) == [r EXCEPT !.slept = Append(@, delay), !.attempt = @ + 1]

\* Variant of Exhausted: a retryable status on the last attempt raises.
Exhausted_Raise(r, response) == Raises(r, "RuntimeError")

\* "else: return response" of the last attempt.
Exhausted(r, response) == Returns(r, response)

\* One iteration of "for attempt in range(max_retries + 1)", the call made.
Iteration(r, o) ==
    IF o.k = "response"
    THEN IF ~Retryable(o) THEN Returns(r, o)
         ELSE IF r.attempt < r.max_retries
         THEN IF RetryAfterRaises(o) THEN Raises(r, "ValueError")
              ELSE Sleeps(r, ResponseDelay(r.base_delay, r.attempt, o))
         ELSE Exhausted(r, o)
    ELSE IF o.k \in {"ConnectionError", "Timeout"}
    THEN IF r.attempt < r.max_retries
         THEN Sleeps([r EXCEPT !.last_exception = o.k], Backoff(r.base_delay, r.attempt))
         ELSE Raises([r EXCEPT !.last_exception = o.k], o.k)
    ELSE Raises(r, o.k)

RetryInit ==
    /\ RefineIdle
    /\ cleanup = NoCleanup
    /\ mock = NoMock
    /\ \E m \in (-1)..MaxRetriesBound, b \in 1..MaxBaseDelay :
           retry = [NoRetry EXCEPT !.pc = "loop", !.max_retries = m, !.base_delay = b]

\* The wrapped function is called and the wrapper acts on what it did.
Call(outcome) ==
    /\ retry.pc = "loop"
    /\ retry.attempt <= retry.max_retries
    /\ retry' = Iteration([retry EXCEPT !.calls = @ + 1, !.last = outcome], outcome)
    /\ UNCHANGED <<refine_vars, cleanup, mock>>

\* The statements after the for loop.
AfterLoop ==
    /\ retry.pc = "loop"
    /\ retry.attempt > retry.max_retries
    /\ retry' = Raises(retry, IF retry.last_exception # "" THEN retry.last_exception
                              ELSE "RuntimeError")
    /\ UNCHANGED <<refine_vars, cleanup, mock>>

RetryNext ==
    \/ \E outcome \in CallOutcomes : Call(outcome)
    \/ AfterLoop

SpecRetry == RetryInit /\ [][RetryNext]_vars

\* The call just made returned a response with a status that is not retried.
GoodResponse(o) == o.k = "response" /\ o.status_code \notin {429, 500, 502, 503, 504}
\* The call just made failed in a way the wrapper retries.
FailedCall(o) ==
    \/ o.k = "response" /\ o.status_code \in {429, 500, 502, 503, 504}
    \/ o.k \in {"ConnectionError", "Timeout"}
CallsBounded == retry.calls <= retry.max_retries + 1
\* A call that returns such a response ends the wrapper with that response,
\* and no call is made once the wrapper has ended.
FirstGoodReturned ==
    /\ (retry.pc = "loop" /\ retry'.calls = retry.calls + 1 /\ GoodResponse(retry'.last))
          => /\ retry'.pc = "returned"
             /\ retry'.returned = retry'.last
    /\ retry.pc # "loop" => retry'.calls = retry.calls

\* C32: the wrapped function is called at most max_retries + 1 times per
\* request, and the first response whose status is not in {429, 500, 502,
\* 503, 504} is returned at once, with no further call.
C32_BoundedCalls == []CallsBounded /\ [][FirstGoodReturned]_vars
\* The second call answered 404 after a first call that was retried.
C32_Witness ==
    /\ retry.pc = "returned"
    /\ retry.max_retries = 2
    /\ retry.calls = 2
    /\ retry.returned.status_code = 404
    /\ Len(retry.slept) = 1

\* C33: when all max_retries + 1 calls fail, the outcome is that of the last
\* call: a retryable status is returned (not raised), a connection error or
\* timeout is raised again; the RuntimeError after the loop is not reached
\* for max_retries >= 0.
C33_LastCallDecides ==
    retry.max_retries >= 0
        => /\ retry.raised # "RuntimeError"
           /\ (retry.calls = retry.max_retries + 1 /\ FailedCall(retry.last))
                => IF retry.last.k = "response"
                   THEN retry.pc = "returned" /\ retry.returned = retry.last /\ retry.raised = ""
                   ELSE retry.pc = "raised" /\ retry.raised = retry.last.k
\* Three calls with max_retries 2, the last answered 429: it is returned.
C33_Witness ==
    /\ retry.max_retries = 2
    /\ retry.calls = 3
    /\ retry.pc = "returned"
    /\ retry.returned.status_code = 429
    /\ Len(retry.slept) = 2

\* The delay the claim gives for the retry after call number i.
ClaimedDelay(i, o) ==
    IF o.k = "response" /\ o.status_code = 429 /\ o.retry_after.k = "seconds"
    THEN Max(retry.base_delay * Pow2(i), o.retry_after.v)
    ELSE retry.base_delay * Pow2(i)
\* A failed call that is not the last is followed by one sleep, of the
\* claimed length; the last call is followed by none.
SleepsAsClaimed ==
    (retry.pc = "loop" /\ retry'.calls = retry.calls + 1)
        => IF FailedCall(retry'.last) /\ retry.attempt < retry.max_retries
           THEN /\ Len(retry'.slept) = Len(retry.slept) + 1
                /\ SubSeq(retry'.slept, 1, Len(retry.slept)) = retry.slept
                /\ retry'.last.retry_after.k # "date"
                     => retry'.slept[Len(retry'.slept)] = ClaimedDelay(retry.attempt, retry'.last)
                /\ retry'.slept[Len(retry'.slept)] >= retry.base_delay * Pow2(retry.attempt)
           ELSE retry'.slept = retry.slept

\* C34: the delay slept before retry number i (i = 0, 1, ...) is
\* base_delay * 2^i, or for a 429 response with a Retry-After header the
\* larger of that and the header's value; nothing is slept after the final
\* attempt.
C34_BackoffDelays == [][SleepsAsClaimed]_vars

\* C35: the counter of a newly constructed patched client is at least the
\* next_id stored in the state file, so that no id handed out by an earlier
\* CLI invocation is handed out again, also when the stored data is empty.
C35_CounterRestored ==
    (mock.client.live /\ mock.last_write = "none" /\ mock.result = 0 /\ mock.file.k = "state")
        => mock.client.next_id >= mock.file.next_id

\* C36: however often the patcher or load_module runs for the class,
\* __init__ and every mutation method carry exactly one wrapper, and one
\* mutation makes exactly one state save.
C36_PatchedOnce ==
    /\ mock.patched => mock.wrappers = 1
    /\ mock.result # 0 => mock.saves = 1
\* A mutation saved once after the patcher and load_module had run again
\* for the patched class.
C36_Witness ==
    /\ mock.patch_runs = MaxPatchRuns
    /\ mock.result # 0
    /\ mock.saves = 1
    /\ mock.last_write = "ok"

\* A failed write is swallowed and the wrapped method returns its result.
SaveFailureSwallowed ==
    mock.last_write = "failed" => (mock.raised = "" /\ mock.result # 0)
\* Constructing a client never raises, and with a missing or unreadable
\* state file the client is the one the unpatched constructor gives.
LoadNeverRaises ==
    /\ mock.raised = ""
    /\ (mock.patch_runs >= 1 /\ mock.result = 0 /\ mock.file.k # "state")
          => /\ mock.client.live
             /\ mock.client.pages = SeedPages
             /\ mock.client.next_id = DefaultNextId

\* C37: persistence is best effort: a failed write of the state file is
\* swallowed and the wrapped method returns its own result, and a missing
\* or unreadable state file is loaded as the empty default ({}, 100), with
\* nothing raised.
C37_BestEffort == SaveFailureSwallowed /\ LoadNeverRaises

====
